---- MODULE Spec2Model ----
(***************************************************************************)
(* A state-machine model of the austack browser SDK:                       *)
(*   ConversationManager  (sdk/nodejs/src/ConversationManager.ts)          *)
(*   AudioInterface       (sdk/nodejs/src/AudioInterface.ts, 1-305)        *)
(*   WebSocketManager     (sdk/nodejs/src/AudioInterface.ts, 306-456)      *)
(*                                                                         *)
(* JavaScript runs one task at a time.  Every action below is one task:    *)
(* a public call, or one callback of the browser (socket event, media      *)
(* permission result, capture frame, render completion), together with     *)
(* the promise continuations that run before the next task.  Handlers are  *)
(* pure operators from a record of all fields ("world") to the next one,   *)
(* so that a handler that calls another (startConversation's catch calls   *)
(* stopConversation, play calls playNextOutputChunk) is their composition. *)
(*                                                                         *)
(* Units: time in milliseconds, RMS amplitude in thousandths (0.05 = 50).  *)
(***************************************************************************)
EXTENDS Integers, Sequences, FiniteSets, TLC

VARIABLES
    \* ConversationManager
    cmIsRunning,         \* ConversationManager.isRunning
    websocketUrl,        \* ConversationManager.websocketUrl
    state,               \* ConversationManager.state (ConversationState)
    published,           \* last snapshot handed to stateChangeCallback (NoSnapshot: none yet)
    calls,               \* pending startConversation() calls, per call site
    \* WebSocketManager
    websocket,           \* WebSocketManager.websocket (0 = null)
    wsIsRunning,         \* WebSocketManager.isRunning
    wsWebsocketUrl,      \* WebSocketManager.websocketUrl
    orphaned,            \* sockets created by a WebSocketManager that was replaced
    socketUrl,           \* the url every WebSocket object was created with
    readyState,          \* readyState of every WebSocket object created
    \* AudioInterface
    aiIsRunning,         \* AudioInterface.isRunning
    inputStream,         \* a MediaStream is referenced
    inputAudioContext,   \* an input AudioContext is referenced
    outputAudioContext,  \* an output AudioContext is referenced
    outputQueue,         \* queued inbound chunks (chunk ids)
    isOutputPlaying,
    currentOutputSource, \* chunk id of the referenced source node (0 = null)
    isAudioPlaying,      \* the "playback active" arming flag
    lastSpeechTime,      \* -1 = null
    audioBufferParts,    \* the capture buffer (one entry per buffered frame)
    lastSendTime,
    \* the browser
    now,                 \* Date.now()
    chunk,               \* what became of every inbound chunk / its source node
    leakedCapture,       \* a live MediaStream/AudioContext pair nobody references
    \* one PCM sample on its way through the two conversions
    sample,              \* a Float32 sample, in units of 1/SampleScale
    pcm,                 \* the Int16 value float32ArrayToInt16Array stores for it
    restored,            \* what convertPCMToFloat32 makes of pcm, in units of 1/SampleScale
    pcmStage,            \* "float", "int16" or "back"
    \* observation (history) variables
    started,             \* chunk ids in the order source.start() was called
    cancelled,           \* chunks that were queued when interruptPlayback() ran
    disturbed,           \* interruptPlayback(), stop() or a failed source.start() happened
    signalsSinceArm,     \* sendInterrupt() calls since isAudioPlaying was last raised
    stoppedSince,        \* an active session was stopped and startConversation() not called since
    speechAt,            \* time of the latest frame whose clamped RMS exceeded 0.01 (-1: none)
    speechFrames,        \* number of such frames so far (counted up to 2)
    flushedAt,           \* time of the latest hand-off of the capture buffer (-1: none)
    flushCount,          \* number of hand-offs of the capture buffer so far
    last                 \* the task that produced this state and what it did

vars == <<cmIsRunning, websocketUrl, wsWebsocketUrl, orphaned, socketUrl,
          state, published, calls, websocket, wsIsRunning, readyState,
          aiIsRunning, inputStream, inputAudioContext, outputAudioContext,
          outputQueue, isOutputPlaying, currentOutputSource, isAudioPlaying,
          lastSpeechTime, audioBufferParts, lastSendTime, now, chunk,
          leakedCapture, started, cancelled, disturbed, signalsSinceArm,
          stoppedSince, speechAt, speechFrames, flushedAt, flushCount, last,
          sample, pcm, restored, pcmStage>>

\* the fields of the three objects, and what the browser holds for them
program == <<cmIsRunning, websocketUrl, wsWebsocketUrl, orphaned, socketUrl,
             state, published, calls, websocket, wsIsRunning,
             readyState, aiIsRunning, inputStream, inputAudioContext,
             outputAudioContext, outputQueue, isOutputPlaying,
             currentOutputSource, isAudioPlaying, lastSpeechTime,
             audioBufferParts, lastSendTime, now, chunk, leakedCapture>>

----------------------------------------------------------------------------
(* Bounds of the model *)

\* WebSocket objects created in one behaviour
MaxSockets == 2
\* inbound binary messages accepted by play() in one behaviour
MaxChunks == 3
\* frames the capture buffer may hold (about 8 frames arrive per send interval)
MaxParts == 2
\* clock ticks in one behaviour
MaxTicks == 5

\* samples are taken this close (in units of 1/SampleScale) to -1, 0 and 1
Near == 40

(* Program constants *)

\* Float32 samples are modelled on the grid of multiples of 2^-16
SampleScale == 65536

silenceThreshold == 10
silenceTimeout == 2000
sendInterval == 500
interruptThreshold == 50
\* calculateRMS: "if (rms < 0.02) return 0"
noiseFloor == 20
\* the clock advances in steps of one send interval
TickMs == sendInterval

Sockets == 1..MaxSockets
Chunks == 1..MaxChunks
\* call sites that may have a startConversation() pending at the same time
Callers == {"a", "b"}
\* endpoints: the one given to the constructor, and another
FirstUrl == "ws://first"
Urls == {FirstUrl, "ws://second"}
NoUrl == "none"
\* raw RMS of a capture frame: silence, below the noise floor, speech, barge-in
FrameRMS == {0, 15, 20, 100}

NoSocket == 0
NoSource == 0
NullTime == -1
NullError == "null"
StartError == "Failed to start conversation"
NoSnapshot == [isConnected |-> FALSE, isRecording |-> FALSE, isPlaying |-> FALSE,
               currentAmplitude |-> -1, error |-> "unpublished"]

Idle == [pc |-> "idle", sock |-> NoSocket]

\* ConversationManager.ts 19-25: the initial (and neutral) ConversationState
Baseline ==
    [isConnected |-> FALSE, isRecording |-> FALSE, isPlaying |-> FALSE,
     currentAmplitude |-> 0, error |-> NullError]

----------------------------------------------------------------------------
(* The world record *)

World ==
    [cmIsRunning |-> cmIsRunning, websocketUrl |-> websocketUrl,
     wsWebsocketUrl |-> wsWebsocketUrl, orphaned |-> orphaned,
     socketUrl |-> socketUrl, state |-> state, published |-> published,
     calls |-> calls, websocket |-> websocket, wsIsRunning |-> wsIsRunning,
     readyState |-> readyState, aiIsRunning |-> aiIsRunning,
     inputStream |-> inputStream, inputAudioContext |-> inputAudioContext,
     outputAudioContext |-> outputAudioContext, outputQueue |-> outputQueue,
     isOutputPlaying |-> isOutputPlaying,
     currentOutputSource |-> currentOutputSource,
     isAudioPlaying |-> isAudioPlaying, lastSpeechTime |-> lastSpeechTime,
     audioBufferParts |-> audioBufferParts, lastSendTime |-> lastSendTime,
     now |-> now, chunk |-> chunk, leakedCapture |-> leakedCapture,
     started |-> started, cancelled |-> cancelled, disturbed |-> disturbed,
     signalsSinceArm |-> signalsSinceArm, stoppedSince |-> stoppedSince,
     speechAt |-> speechAt, speechFrames |-> speechFrames,
     flushedAt |-> flushedAt, flushCount |-> flushCount,
     last |-> last]

Becomes(w) ==
    /\ cmIsRunning' = w.cmIsRunning
    /\ websocketUrl' = w.websocketUrl
    /\ wsWebsocketUrl' = w.wsWebsocketUrl
    /\ orphaned' = w.orphaned
    /\ socketUrl' = w.socketUrl
    /\ state' = w.state
    /\ published' = w.published
    /\ calls' = w.calls
    /\ websocket' = w.websocket
    /\ wsIsRunning' = w.wsIsRunning
    /\ readyState' = w.readyState
    /\ aiIsRunning' = w.aiIsRunning
    /\ inputStream' = w.inputStream
    /\ inputAudioContext' = w.inputAudioContext
    /\ outputAudioContext' = w.outputAudioContext
    /\ outputQueue' = w.outputQueue
    /\ isOutputPlaying' = w.isOutputPlaying
    /\ currentOutputSource' = w.currentOutputSource
    /\ isAudioPlaying' = w.isAudioPlaying
    /\ lastSpeechTime' = w.lastSpeechTime
    /\ audioBufferParts' = w.audioBufferParts
    /\ lastSendTime' = w.lastSendTime
    /\ now' = w.now
    /\ chunk' = w.chunk
    /\ leakedCapture' = w.leakedCapture
    /\ started' = w.started
    /\ cancelled' = w.cancelled
    /\ disturbed' = w.disturbed
    /\ signalsSinceArm' = w.signalsSinceArm
    /\ stoppedSince' = w.stoppedSince
    /\ speechAt' = w.speechAt
    /\ speechFrames' = w.speechFrames
    /\ flushedAt' = w.flushedAt
    /\ flushCount' = w.flushCount
    /\ last' = w.last
    /\ UNCHANGED <<sample, pcm, restored, pcmStage>>

\* The record of a task: which one, and (filled in by the handlers) what it did.
\*   result   outcome of a startConversation() call settled by this task
\*   active   a stopConversation() found the session active
\*   armed    isAudioPlaying when the task began
\*   pubs     snapshots handed to the observer
\*   signals  calls of WebSocketManager.sendInterrupt()
\*   wire     what was written to the socket, in order
\*   source   the source node interruptPlayback()/stop() stopped (0 = none)
\*   drained  playNextOutputChunk found the queue empty
\*   buffered the frame was pushed on the capture buffer
\*   pending  the capture buffer when the flush test was made
\*   flushes  calls of inputCallback
\*   flushed  what inputCallback was given
\*   gap      time since the previous call of inputCallback (-1: there was none)
\*   url      the argument of updateWebSocketUrl()
\*   failed   the chunk whose rendering playNextOutputChunk failed to start (0 = none)
Event(w, op, rms) ==
    [w EXCEPT !.last = [op |-> op, rms |-> rms, result |-> "none",
                        active |-> w.cmIsRunning, armed |-> w.isAudioPlaying,
                        pubs |-> 0, signals |-> 0, wire |-> <<>>,
                        source |-> NoSource, drained |-> FALSE,
                        buffered |-> FALSE, pending |-> <<>>, flushes |-> 0,
                        flushed |-> <<>>, gap |-> NullTime, url |-> NoUrl,
                        failed |-> NoSource]]

----------------------------------------------------------------------------
(* ConversationManager: state publication *)

Merge(st, updates) ==
    [f \in DOMAIN st |-> IF f \in DOMAIN updates THEN updates[f] ELSE st[f]]

\* ConversationManager.updateState
UpdateState(w, updates) ==
    LET st == Merge(w.state, updates)
    IN  [w EXCEPT !.state = st, !.published = st, !.last.pubs = @ + 1]

----------------------------------------------------------------------------
(* WebSocketManager *)

\* the guard shared by sendAudioData, sendMessage and sendInterrupt
CanSend(w) ==
    /\ w.websocket # NoSocket
    /\ w.wsIsRunning
    /\ w.readyState[w.websocket] = "open"

\* WebSocketManager.isConnected
IsConnected(w) ==
    /\ w.websocket # NoSocket
    /\ w.readyState[w.websocket] = "open"
    /\ w.wsIsRunning

\* WebSocketManager.sendInterrupt
SendInterrupt(w) ==
    LET w1 == [w EXCEPT !.last.signals = @ + 1,
                        !.signalsSinceArm = IF @ < 2 THEN @ + 1 ELSE @]
    IN  IF CanSend(w1)
        THEN [w1 EXCEPT !.last.wire = Append(@, [kind |-> "interrupt", data |-> <<>>])]
        ELSE w1

\* WebSocketManager.sendAudioData
SendAudioData(w, audioData) ==
    IF CanSend(w)
    THEN [w EXCEPT !.last.wire = Append(@, [kind |-> "audio", data |-> audioData])]
    ELSE w

\* WebSocketManager.sendMessage, of a message JSON.stringify accepts
WsSendMessage(w) ==
    IF CanSend(w)
    THEN [w EXCEPT !.last.wire = Append(@, [kind |-> "message", data |-> <<>>])]
    ELSE w

\* WebSocketManager.disconnect
Disconnect(w) ==
    LET w1 == [w EXCEPT !.wsIsRunning = FALSE]
    IN  IF w1.websocket # NoSocket
        THEN [w1 EXCEPT !.readyState[w.websocket] =
                            IF @ = "open" THEN "closing" ELSE @,
                        !.websocket = NoSocket]
        ELSE w1

----------------------------------------------------------------------------
(* AudioInterface: playback *)

Range(q) == {q[i] : i \in 1..Len(q)}

Rendering(w) == {c \in Chunks : w.chunk[c] \in {"rendering", "renderingLeaked"}}

\* AudioBufferSourceNode.stop(): a rendering source stops and its ended event
\* is still to be delivered; on any other source the call changes nothing
\* (the code swallows the exception).
StopSource(status) ==
    IF status \in {"rendering", "renderingLeaked"} THEN "stopped" ELSE status

\* AudioInterface.playNextOutputChunk; ok: source.start() did not throw.
\* A chunk of no bytes or of an odd number of bytes is "malformed": new
\* Int16Array(buffer) or createBuffer(1, 0, rate) throws for it.
PlayNextOutputChunk(w, ok) ==
    IF ~w.outputAudioContext
    THEN [w EXCEPT !.isOutputPlaying = FALSE]
    ELSE IF w.outputQueue = <<>>
    THEN [w EXCEPT !.isOutputPlaying = FALSE,
                   !.isAudioPlaying = FALSE,
                   !.currentOutputSource = NoSource,
                   !.last.drained = TRUE]
    ELSE LET nextChunk == Head(w.outputQueue)
             w0 == [w EXCEPT !.isOutputPlaying = TRUE,
                             !.outputQueue = Tail(@)]
             w1 == [w0 EXCEPT !.currentOutputSource = nextChunk]
         IN  IF w.chunk[nextChunk] = "malformed"
             THEN \* lines 255-256 throw, outside the try of lines 264-270
                  [w0 EXCEPT !.chunk[nextChunk] = "unplayable",
                             !.disturbed = TRUE,
                             !.last.failed = nextChunk]
             ELSE IF ok
             THEN [w1 EXCEPT !.chunk[nextChunk] = "rendering",
                             !.started = Append(@, nextChunk)]
             ELSE [w1 EXCEPT !.chunk[nextChunk] = "failed",
                             !.disturbed = TRUE,
                             !.last.failed = nextChunk,
                             !.isOutputPlaying = FALSE,
                             !.currentOutputSource = NoSource]

\* the id of the next inbound chunk: ids are given in arrival order
NewChunk(w) == CHOOSE c \in Chunks :
    /\ w.chunk[c] = "none"
    /\ \A d \in Chunks : w.chunk[d] = "none" => c <= d

\* play() as it would be without the "if (!this.isOutputPlaying)" test
PlayStartsAlways(w, ok, pcmOk) ==
    IF ~w.outputAudioContext
    THEN w
    ELSE LET c == NewChunk(w)
             w1 == [w EXCEPT !.isAudioPlaying = TRUE,
                             !.signalsSinceArm = 0,
                             !.outputQueue = Append(@, c),
                             !.chunk[c] = IF pcmOk THEN "queued" ELSE "malformed"]
         IN  PlayNextOutputChunk(w1, ok)

\* AudioInterface.play
Play(w, ok, pcmOk) ==
    IF ~w.outputAudioContext
    THEN w
    ELSE LET c == NewChunk(w)
             w1 == [w EXCEPT !.isAudioPlaying = TRUE,
                             !.signalsSinceArm = 0,
                             !.outputQueue = Append(@, c),
                             !.chunk[c] = IF pcmOk THEN "queued" ELSE "malformed"]
         IN  IF ~w1.isOutputPlaying THEN PlayNextOutputChunk(w1, ok) ELSE w1

\* AudioInterface.setAudioPlaybackState
SetAudioPlaybackState(w, isPlaying) ==
    [w EXCEPT !.isAudioPlaying = isPlaying,
              !.signalsSinceArm = IF isPlaying THEN 0 ELSE @]

\* lines 209 / 276 and 212-216 / 278-282: the queue is emptied and the
\* referenced source node, if any, is stopped and released
ClearOutput(w) ==
    LET cur == w.currentOutputSource
        w1 == [w EXCEPT !.chunk = [c \in Chunks |->
                                      IF c \in Range(w.outputQueue)
                                      THEN "dropped" ELSE @[c]],
                        !.outputQueue = <<>>,
                        !.isOutputPlaying = FALSE,
                        !.disturbed = TRUE]
    IN  IF cur # NoSource
        THEN [w1 EXCEPT !.chunk[cur] = StopSource(@),
                        !.currentOutputSource = NoSource,
                        !.last.source = cur]
        ELSE w1

\* interruptPlayback() as it would be without "this.outputQueue = []"
InterruptKeepsQueue(w) ==
    LET cur == w.currentOutputSource
        w1 == [w EXCEPT !.cancelled = @ \cup Range(w.outputQueue),
                        !.isAudioPlaying = FALSE,
                        !.isOutputPlaying = FALSE,
                        !.disturbed = TRUE]
    IN  IF cur # NoSource
        THEN [w1 EXCEPT !.chunk[cur] = StopSource(@),
                        !.currentOutputSource = NoSource,
                        !.last.source = cur]
        ELSE w1

\* AudioInterface.interruptPlayback
InterruptPlayback(w) ==
    LET w1 == [w EXCEPT !.cancelled = @ \cup Range(w.outputQueue),
                        !.isAudioPlaying = FALSE]
    IN  ClearOutput(w1)

\* AudioInterface.stop.  Closing the output context ends the rendering of the
\* sources created in it; whether their ended events are still delivered is
\* left open (RenderEnded stays enabled for them and need not happen).
AudioInterfaceStop(w) ==
    LET w1 == ClearOutput([w EXCEPT !.aiIsRunning = FALSE])
        w2 == [w1 EXCEPT !.inputStream = FALSE, !.inputAudioContext = FALSE]
    IN  IF w2.outputAudioContext
        THEN [w2 EXCEPT !.outputAudioContext = FALSE,
                        !.chunk = [c \in Chunks |->
                                      IF @[c] = "rendering" THEN "stopped" ELSE @[c]]]
        ELSE w2

----------------------------------------------------------------------------
(* AudioInterface: capture *)

\* AudioInterface.calculateRMS, of a frame whose root mean square is raw
CalculateRMS(raw) == IF raw < noiseFloor THEN 0 ELSE raw

\* isSpeech() as it would be if it compared the unclamped root mean square
IsSpeechUnclamped(raw) == raw > silenceThreshold

\* AudioInterface.isSpeech
IsSpeech(raw) == CalculateRMS(raw) > silenceThreshold

\* shouldSendAudio() as it would be with "<=" for "<"
ShouldSendInclusive(w) ==
    IF w.lastSpeechTime = NullTime
    THEN FALSE
    ELSE w.now - w.lastSpeechTime <= silenceTimeout

\* AudioInterface.shouldSendAudio
ShouldSendAudio(w) ==
    IF w.lastSpeechTime = NullTime
    THEN FALSE
    ELSE w.now - w.lastSpeechTime < silenceTimeout

\* ConversationManager.onInterrupt
OnInterrupt(w) == SendInterrupt(w)

\* ConversationManager.onAudioInput
OnAudioInput(w, audioData) == SendAudioData(w, audioData)

\* onAmplitudeChange() as it would be if it reported playback with the level
OnAmplitudeChangeReportsPlayback(w, amplitude) ==
    UpdateState(w, [currentAmplitude |-> amplitude, isPlaying |-> w.isAudioPlaying])

\* ConversationManager.onAmplitudeChange
OnAmplitudeChange(w, amplitude) == UpdateState(w, [currentAmplitude |-> amplitude])

\* lines 89-100 as they would be without "this.isAudioPlaying = false"
DetectSpeechStaysArmed(w, raw) ==
    LET rms == CalculateRMS(raw)
    IN  IF IsSpeech(raw)
        THEN LET w1 == [w EXCEPT !.lastSpeechTime = w.now]
             IN  IF w1.isAudioPlaying /\ rms > interruptThreshold
                 THEN OnInterrupt(w1)
                 ELSE w1
        ELSE w

\* lines 89-100: speech detection and the barge-in trigger
DetectSpeech(w, raw) ==
    LET rms == CalculateRMS(raw)
    IN  IF IsSpeech(raw)
        THEN LET w1 == [w EXCEPT !.lastSpeechTime = w.now]
             IN  IF w1.isAudioPlaying /\ rms > interruptThreshold
                 THEN [OnInterrupt(w1) EXCEPT !.isAudioPlaying = FALSE]
                 ELSE w1
        ELSE w

\* lines 102-106 as they would be without the shouldSendAudio() test
BufferEveryFrame(w, raw) ==
    [w EXCEPT !.audioBufferParts = Append(@, raw), !.last.buffered = TRUE]

\* lines 102-106: the frame (as 16-bit PCM) joins the capture buffer
BufferFrame(w, raw) ==
    IF ShouldSendAudio(w)
    THEN [w EXCEPT !.audioBufferParts = Append(@, raw), !.last.buffered = TRUE]
    ELSE w

\* the flush as it would be without "this.audioBufferParts = []"
FlushKeepsBuffer(w) ==
    IF /\ w.now - w.lastSendTime >= sendInterval
       /\ Len(w.audioBufferParts) > 0
       /\ ShouldSendAudio(w)
    THEN [OnAudioInput(w, w.audioBufferParts) EXCEPT
              !.last.flushes = @ + 1,
              !.last.flushed = w.audioBufferParts,
              !.lastSendTime = w.now]
    ELSE w

\* the flush as it would be without the send-interval condition
FlushEveryFrame(w) ==
    IF /\ Len(w.audioBufferParts) > 0
       /\ ShouldSendAudio(w)
    THEN [OnAudioInput(w, w.audioBufferParts) EXCEPT
              !.last.flushes = @ + 1,
              !.last.flushed = w.audioBufferParts,
              !.audioBufferParts = <<>>,
              !.lastSendTime = w.now]
    ELSE w

\* the flush as it would be without the "this.shouldSendAudio()" condition
FlushIgnoresWindow(w) ==
    IF /\ w.now - w.lastSendTime >= sendInterval
       /\ Len(w.audioBufferParts) > 0
    THEN [OnAudioInput(w, w.audioBufferParts) EXCEPT
              !.last.flushes = @ + 1,
              !.last.flushed = w.audioBufferParts,
              !.audioBufferParts = <<>>,
              !.lastSendTime = w.now]
    ELSE w

\* lines 108-130: the periodic flush of the capture buffer
FlushBuffer(w) ==
    IF /\ w.now - w.lastSendTime >= sendInterval
       /\ Len(w.audioBufferParts) > 0
       /\ ShouldSendAudio(w)
    THEN [OnAudioInput(w, w.audioBufferParts) EXCEPT
              !.last.flushes = @ + 1,
              !.last.flushed = w.audioBufferParts,
              !.audioBufferParts = <<>>,
              !.lastSendTime = w.now]
    ELSE w

\* AudioInterface.processAudioData
ProcessAudioData(w, raw) ==
    LET w1 == OnAmplitudeChange(w, CalculateRMS(raw))
        w2 == DetectSpeech(w1, raw)
        w3 == BufferFrame(w2, raw)
    IN  FlushBuffer(w3)

----------------------------------------------------------------------------
(* AudioInterface: PCM conversion *)

Samples == {n \in -(SampleScale + Near)..(SampleScale + Near) :
               \/ n >= -Near /\ n <= Near
               \/ n >= SampleScale - Near
               \/ n <= Near - SampleScale}

\* Math.max(-1, Math.min(1, x))
Clamp(n) ==
    LET lo == IF n < SampleScale THEN n ELSE SampleScale
    IN  IF lo > -SampleScale THEN lo ELSE -SampleScale

\* the integer part of a / b (b > 0), as the store into a typed array takes it
Trunc(a, b) == IF a >= 0 THEN a \div b ELSE -((-a) \div b)

\* the store of an integer into an Int16Array element: modulo 2^16
ToInt16(v) ==
    LET m == v % 65536
    IN  IF m >= 32768 THEN m - 65536 ELSE m

\* AudioInterface.float32ArrayToInt16Array, of one sample
Float32ArrayToInt16Array(n) == ToInt16(Trunc(Clamp(n) * 32767, SampleScale))

\* AudioInterface.convertPCMToFloat32, of one sample: int16 / 32768.0
ConvertPCMToFloat32(q) == q * (SampleScale \div 32768)

----------------------------------------------------------------------------
(* ConversationManager: lifecycle *)

\* stopConversation() as it would be without the "if (!this.isRunning)" return
StopAlways(w) ==
    LET w1 == [w EXCEPT !.cmIsRunning = FALSE, !.stoppedSince = TRUE]
        w2 == AudioInterfaceStop(w1)
        w3 == Disconnect(w2)
    IN  UpdateState(w3, Baseline)

\* ConversationManager.stopConversation
StopConversation(w) ==
    IF ~w.cmIsRunning
    THEN w
    ELSE LET w1 == [w EXCEPT !.cmIsRunning = FALSE, !.stoppedSince = TRUE]
             w2 == AudioInterfaceStop(w1)
             w3 == Disconnect(w2)
         IN  UpdateState(w3, Baseline)

\* sendMessage() as it would be without the test of lines 133-136
SendMessageUnguarded(w) == WsSendMessage(w)

\* ConversationManager.sendMessage
SendMessage(w) ==
    IF ~w.cmIsRunning \/ ~IsConnected(w)
    THEN w
    ELSE WsSendMessage(w)

\* updateWebSocketUrl() as it would be without line 166 (the manager is kept)
UpdateUrlKeepsManager(w, newUrl) ==
    IF w.cmIsRunning
    THEN [w EXCEPT !.last.result = "threw"]
    ELSE [w EXCEPT !.websocketUrl = newUrl]

\* ConversationManager.updateWebSocketUrl: a new WebSocketManager replaces
\* the old one, whose sockets stay as they are
UpdateWebSocketUrl(w, newUrl) ==
    IF w.cmIsRunning
    THEN [w EXCEPT !.last.result = "threw"]
    ELSE [w EXCEPT !.websocketUrl = newUrl,
                   !.wsWebsocketUrl = newUrl,
                   !.websocket = NoSocket,
                   !.wsIsRunning = FALSE,
                   !.orphaned = {s \in Sockets : w.readyState[s] # "unused"}]

\* startConversation, lines 81-85: connect() has resolved; the call now
\* waits for getUserMedia inside AudioInterface.start()
AfterConnect(w, c) ==
    LET w1 == UpdateState(w, [isConnected |-> TRUE])
    IN  [w1 EXCEPT !.calls[c] = [pc |-> "acquiring", sock |-> NoSocket]]

\* startConversation, lines 91-103: the catch block
FailStart(w, c) ==
    LET w1 == UpdateState(w, [error |-> StartError,
                              isConnected |-> FALSE,
                              isRecording |-> FALSE])
        w2 == StopConversation(w1)
    IN  [w2 EXCEPT !.calls[c] = Idle, !.last.result = "failed"]

\* the next WebSocket object
NewSocket(w) == CHOOSE s \in Sockets :
    /\ w.readyState[s] = "unused"
    /\ \A t \in Sockets : w.readyState[t] = "unused" => s <= t

\* WebSocketManager.connect, up to the point where it returns its promise
Connect(w, c) ==
    IF w.websocket # NoSocket
    THEN AfterConnect(w, c)
    ELSE LET s == NewSocket(w)
         IN  [w EXCEPT !.readyState[s] = "connecting",
                       !.socketUrl[s] = w.wsWebsocketUrl,
                       !.websocket = s,
                       !.calls[c] = [pc |-> "connecting", sock |-> s]]

\* ConversationManager.startConversation, up to its first suspension
StartConversation(w, c) ==
    LET w1 == [w EXCEPT !.stoppedSince = FALSE]
    IN  IF w1.cmIsRunning
        THEN [w1 EXCEPT !.last.result = "already"]
        ELSE Connect(UpdateState(w1, [error |-> NullError]), c)

\* websocket.onopen, and the continuation of the call awaiting connect()
OnOpen(w, s) ==
    LET w1 == [w EXCEPT !.readyState[s] = "open",
                        !.wsIsRunning = IF s \in w.orphaned THEN @ ELSE TRUE]
        waiting == {c \in Callers : w.calls[c] = [pc |-> "connecting", sock |-> s]}
    IN  IF waiting = {} THEN w1 ELSE AfterConnect(w1, CHOOSE c \in waiting : TRUE)

\* websocket.onerror of a socket that never opened (the promise is rejected),
\* then websocket.onclose
OnConnectError(w, s) ==
    LET w1 == [w EXCEPT !.readyState[s] = "closed",
                        !.wsIsRunning = IF s \in w.orphaned THEN @ ELSE FALSE]
        waiting == {c \in Callers : w.calls[c] = [pc |-> "connecting", sock |-> s]}
        w2 == IF waiting = {} THEN w1 ELSE FailStart(w1, CHOOSE c \in waiting : TRUE)
    IN  [w2 EXCEPT !.wsIsRunning = IF s \in w.orphaned THEN @ ELSE FALSE]

\* websocket.onclose (after onerror, if the channel broke) of a socket that
\* had opened
OnClose(w, s) ==
    [w EXCEPT !.readyState[s] = "closed",
              !.wsIsRunning = IF s \in w.orphaned THEN @ ELSE FALSE]

\* AudioInterface.start, lines 136-174, then startConversation, lines 86-89
OnUserMedia(w, c) ==
    LET w1 == [w EXCEPT !.leakedCapture = @ \/ w.inputStream,
                        !.inputStream = TRUE,
                        !.inputAudioContext = TRUE,
                        !.outputAudioContext = TRUE,
                        !.chunk = [d \in Chunks |->
                                      IF @[d] = "rendering"
                                      THEN "renderingLeaked" ELSE @[d]],
                        !.aiIsRunning = TRUE]
        w2 == UpdateState(w1, [isRecording |-> TRUE])
    IN  [w2 EXCEPT !.cmIsRunning = TRUE,
                   !.calls[c] = Idle,
                   !.last.result = "started"]

----------------------------------------------------------------------------
(* The tasks *)

Constructed ==
    /\ cmIsRunning = FALSE
    /\ websocketUrl = FirstUrl
    /\ wsWebsocketUrl = FirstUrl
    /\ orphaned = {}
    /\ socketUrl = [s \in Sockets |-> NoUrl]
    /\ state = Baseline
    /\ published = NoSnapshot
    /\ calls = [c \in Callers |-> Idle]
    /\ websocket = NoSocket
    /\ wsIsRunning = FALSE
    /\ readyState = [s \in Sockets |-> "unused"]
    /\ aiIsRunning = FALSE
    /\ inputStream = FALSE
    /\ inputAudioContext = FALSE
    /\ outputAudioContext = FALSE
    /\ outputQueue = <<>>
    /\ isOutputPlaying = FALSE
    /\ currentOutputSource = NoSource
    /\ isAudioPlaying = FALSE
    /\ lastSpeechTime = NullTime
    /\ audioBufferParts = <<>>
    /\ lastSendTime = 0
    /\ now = 0
    /\ chunk = [c \in Chunks |-> "none"]
    /\ leakedCapture = FALSE
    /\ started = <<>>
    /\ cancelled = {}
    /\ disturbed = FALSE
    /\ signalsSinceArm = 0
    /\ stoppedSince = FALSE
    /\ speechAt = NullTime
    /\ speechFrames = 0
    /\ flushedAt = NullTime
    /\ flushCount = 0
    /\ pcm = 0
    /\ restored = 0
    /\ pcmStage = "float"
    /\ last = [op |-> "new", rms |-> 0, result |-> "none", active |-> FALSE,
               armed |-> FALSE, pubs |-> 0, signals |-> 0, wire |-> <<>>,
               source |-> NoSource, drained |-> FALSE,
               buffered |-> FALSE, pending |-> <<>>, flushes |-> 0,
               flushed |-> <<>>, gap |-> NullTime, url |-> NoUrl,
               failed |-> NoSource]

Init == Constructed /\ sample = 0

\* a call of startConversation()
StartCall(c) ==
    /\ calls[c].pc = "idle"
    /\ cmIsRunning \/ websocket # NoSocket \/ \E s \in Sockets : readyState[s] = "unused"
    /\ Becomes(StartConversation(Event(World, "startConversation", 0), c))

\* a call of stopConversation()
StopCall ==
    \E w \in {Event(World, "stopConversation", 0)} :
        Becomes(StopConversation(w))

\* a call of sendMessage()
SendMessageCall ==
    \E w \in {Event(World, "sendMessage", 0)} :
        Becomes(SendMessage(w))

\* a call of updateWebSocketUrl()
UpdateUrlCall(newUrl) ==
    \E w \in {[Event(World, "updateWebSocketUrl", 0) EXCEPT !.last.url = newUrl]} :
        Becomes(UpdateWebSocketUrl(w, newUrl))

\* the open event of a socket
SocketOpen(s) ==
    /\ readyState[s] = "connecting"
    /\ Becomes(OnOpen(Event(World, "onopen", 0), s))

\* the connection attempt of a socket fails
SocketConnectError(s) ==
    /\ readyState[s] = "connecting"
    /\ Becomes(OnConnectError(Event(World, "onerror", 0), s))

\* an open socket is closed by the peer or the network, or finishes the
\* close that disconnect() began
SocketClose(s) ==
    /\ readyState[s] \in {"open", "closing"}
    /\ Becomes(OnClose(Event(World, "onclose", 0), s))

\* a binary message arrives: handleWebSocketMessage calls play()
SocketMessage(s, ok, pcmOk) ==
    /\ readyState[s] = "open"
    /\ outputAudioContext => \E c \in Chunks : chunk[c] = "none"
    /\ Becomes(Play(Event(World, "play", 0), ok, pcmOk))

\* getUserMedia resolves for a pending start
UserMediaGranted(c) ==
    /\ calls[c].pc = "acquiring"
    /\ Becomes(OnUserMedia(Event(World, "getUserMedia", 0), c))

\* getUserMedia rejects for a pending start
UserMediaDenied(c) ==
    /\ calls[c].pc = "acquiring"
    /\ Becomes(FailStart(Event(World, "getUserMediaError", 0), c))

\* the ended event of a source node: onended is playNextOutputChunk
RenderEnded(c, ok) ==
    /\ chunk[c] \in {"rendering", "renderingLeaked", "stopped"}
    /\ LET w == Event(World, "onended", 0)
       IN  Becomes(PlayNextOutputChunk([w EXCEPT !.chunk[c] = "done"], ok))

\* a call of AudioInterface.interruptPlayback()
InterruptCall ==
    \E w \in {Event(World, "interruptPlayback", 0)} :
        Becomes(InterruptPlayback(w))

\* a call of AudioInterface.setAudioPlaybackState()
SetPlaybackStateCall(b) ==
    /\ isAudioPlaying # b
    /\ Becomes(SetAudioPlaybackState(Event(World, "setAudioPlaybackState", 0), b))

\* what an observer of the microphone and of inputCallback notes of a frame
Heard(before, w, raw) ==
    LET speech == (IF raw < noiseFloor THEN 0 ELSE raw) > silenceThreshold
        flush == w.last.flushes > 0
    IN  [w EXCEPT
            !.speechAt = IF speech THEN before.now ELSE @,
            !.speechFrames = IF speech /\ @ < 2 THEN @ + 1 ELSE @,
            !.flushedAt = IF flush THEN before.now ELSE @,
            !.flushCount = @ + w.last.flushes,
            !.last.pending = before.audioBufferParts \o
                                 (IF w.last.buffered THEN <<raw>> ELSE <<>>),
            !.last.gap = IF flush /\ before.flushedAt # NullTime
                         THEN before.now - before.flushedAt ELSE NullTime]

\* onaudioprocess delivers a capture frame
CaptureFrame(raw) ==
    /\ aiIsRunning
    /\ LET w == ProcessAudioData(Event(World, "frame", raw), raw)
       IN  /\ Len(w.audioBufferParts) <= MaxParts
           /\ Len(w.last.flushed) <= MaxParts
           /\ Becomes(Heard(World, w, raw))

\* float32ArrayToInt16Array converts the sample
EncodeSample ==
    /\ pcmStage = "float"
    /\ pcm' = Float32ArrayToInt16Array(sample)
    /\ pcmStage' = "int16"
    /\ UNCHANGED <<program, started, cancelled, disturbed, signalsSinceArm,
                   stoppedSince, speechAt, speechFrames, flushedAt, flushCount,
                   last, sample, restored>>

\* convertPCMToFloat32 converts it back
DecodeSample ==
    /\ pcmStage = "int16"
    /\ restored' = ConvertPCMToFloat32(pcm)
    /\ pcmStage' = "back"
    /\ UNCHANGED <<program, started, cancelled, disturbed, signalsSinceArm,
                   stoppedSince, speechAt, speechFrames, flushedAt, flushCount,
                   last, sample, pcm>>

\* time passes
Tick ==
    /\ now < MaxTicks * TickMs
    /\ Becomes([Event(World, "tick", 0) EXCEPT !.now = @ + TickMs])

\* The playback and barge-in world: one call site starts and stops the
\* session; inbound chunks, render completions, capture frames and the
\* AudioInterface's playback controls interleave freely.
PlaybackNext ==
    \/ StartCall("a")
    \/ StopCall
    \/ \E s \in Sockets : SocketOpen(s)
    \/ UserMediaGranted("a")
    \/ \E s \in Sockets, ok \in BOOLEAN : SocketMessage(s, ok, TRUE)
    \/ \E c \in Chunks, ok \in BOOLEAN : RenderEnded(c, ok)
    \/ InterruptCall
    \/ \E b \in BOOLEAN : SetPlaybackStateCall(b)
    \/ \E raw \in {20, 100} : CaptureFrame(raw)

Spec == Init /\ [][PlaybackNext]_vars

\* The session world: overlapping calls, failing acquisitions, sockets
\* closing; playback and capture reduced to what publishes state.
SessionNext ==
    \/ \E c \in Callers : StartCall(c)
    \/ StopCall
    \/ \E s \in Sockets : SocketOpen(s)
    \/ \E s \in Sockets : SocketConnectError(s)
    \/ \E s \in Sockets : SocketClose(s)
    \/ \E c \in Callers : UserMediaGranted(c)
    \/ \E c \in Callers : UserMediaDenied(c)
    \/ \E s \in Sockets : SocketMessage(s, TRUE, TRUE)
    \/ CaptureFrame(100)
    \/ SendMessageCall

SessionSpec == Init /\ [][SessionNext]_vars

\* The capture world: one session, capture frames of every level, and time.
CaptureNext ==
    \/ StartCall("a")
    \/ StopCall
    \/ \E s \in Sockets : SocketOpen(s)
    \/ UserMediaGranted("a")
    \/ \E raw \in FrameRMS : CaptureFrame(raw)
    \/ Tick

CaptureSpec == Init /\ [][CaptureNext]_vars

\* The transmit world: one session whose socket may close, silent and speech
\* frames, and time.
TransmitNext ==
    \/ StartCall("a")
    \/ StopCall
    \/ \E s \in Sockets : SocketOpen(s)
    \/ \E s \in Sockets : SocketClose(s)
    \/ UserMediaGranted("a")
    \/ \E raw \in {0, 20} : CaptureFrame(raw)
    \/ Tick

TransmitSpec == Init /\ [][TransmitNext]_vars

\* The endpoint world: one call site, starts that fail or succeed, sockets
\* that close, server audio, and changes of the endpoint.
EndpointNext ==
    \/ StartCall("a")
    \/ StopCall
    \/ \E s \in Sockets : SocketOpen(s)
    \/ \E s \in Sockets : SocketConnectError(s)
    \/ \E s \in Sockets : SocketClose(s)
    \/ UserMediaGranted("a")
    \/ UserMediaDenied("a")
    \/ \E s \in Sockets : SocketMessage(s, TRUE, TRUE)
    \/ \E u \in Urls : UpdateUrlCall(u)

EndpointSpec == Init /\ [][EndpointNext]_vars

\* The conversion world: one sample, out of the range [-1, 1] or in it, is
\* converted to 16-bit PCM and back.
PcmInit == Constructed /\ sample \in Samples

PcmNext == EncodeSample \/ DecodeSample

PcmSpec == PcmInit /\ [][PcmNext]_vars

\* The rendering world: one session whose server sends well-formed chunks
\* and chunks that cannot be turned into an audio buffer, and whose source
\* nodes may refuse to start.
RenderNext ==
    \/ StartCall("a")
    \/ StopCall
    \/ \E s \in Sockets : SocketOpen(s)
    \/ UserMediaGranted("a")
    \/ \E s \in Sockets, ok \in BOOLEAN, pcmOk \in BOOLEAN : SocketMessage(s, ok, pcmOk)
    \/ \E c \in Chunks, ok \in BOOLEAN : RenderEnded(c, ok)
    \/ InterruptCall

RenderSpec == Init /\ [][RenderNext]_vars

\* The barge-in world: one session whose socket may close, server audio that
\* plays to the end, and capture frames below the noise floor, of speech
\* below the interrupt threshold, and above it.
BargeInNext ==
    \/ StartCall("a")
    \/ StopCall
    \/ \E s \in Sockets : SocketOpen(s)
    \/ \E s \in Sockets : SocketClose(s)
    \/ UserMediaGranted("a")
    \/ \E s \in Sockets : SocketMessage(s, TRUE, TRUE)
    \/ \E c \in Chunks : RenderEnded(c, TRUE)
    \/ \E raw \in FrameRMS \ {0} : CaptureFrame(raw)

BargeInSpec == Init /\ [][BargeInNext]_vars

----------------------------------------------------------------------------
(* Claims about the playback queue (Spec) and the barge-in trigger (BargeInSpec) *)

Assigned == {c \in Chunks : chunk[c] # "none"}

AllDone == \A c \in Assigned : chunk[c] = "done"

\* C1: as long as no interruptPlayback(), no stop() and no failed
\* source.start() has happened, the chunks accepted by play() are started in
\* the order they arrived (ids are arrival numbers), a chunk is started only
\* when every earlier one has delivered its completion callback, the chunks
\* not yet started wait in the queue in arrival order, and once the last
\* completion callback has run every accepted chunk has been started exactly
\* once and the queue is Idle and empty.
C1_PlaybackFifo ==
    ~disturbed =>
        LET n == Cardinality(Assigned)
            k == Len(started)
        IN  /\ k <= n
            /\ Assigned = 1..n
            /\ started = [i \in 1..k |-> i]
            /\ outputQueue = [i \in 1..(n - k) |-> k + i]
            /\ \A c \in 1..(k - 1) : chunk[c] = "done"
            /\ Rendering(World) \subseteq {k}
            /\ isOutputPlaying <=> Rendering(World) # {}
            /\ outputQueue # <<>> => isOutputPlaying
            /\ AllDone => k = n /\ ~isOutputPlaying /\ outputQueue = <<>>

\* three chunks were enqueued, rendered one after the other and completed
C1_Witness ==
    /\ ~disturbed
    /\ started = <<1, 2, 3>>
    /\ AllDone
    /\ ~isOutputPlaying
    /\ outputQueue = <<>>

\* C2: at most one chunk is rendering on the output sink at any time.
C2_AtMostOneRendering == Cardinality(Rendering(World)) <= 1

C4_BargeInClearsPlayback ==
    (last.op = "frame" /\ last.armed /\ CalculateRMS(last.rms) > interruptThreshold) =>
        /\ outputQueue = <<>>
        /\ ~isOutputPlaying
        /\ currentOutputSource = NoSource
        /\ Rendering(World) = {}

InterruptsWritten == Len(SelectSeq(last.wire, LAMBDA m : m.kind = "interrupt"))

\* C5: a frame hands an interrupt signal to the transport exactly when it is
\* speech above the interrupt threshold and the playback-active flag is
\* raised; it hands over one signal and lowers the flag; nothing else hands
\* over a signal; so between two raisings of the flag (play() or
\* setAudioPlaybackState(true)) at most one signal is handed over.
C5_InterruptDisarm ==
    /\ last.op = "frame" =>
           /\ last.signals =
                  IF last.armed /\ IsSpeech(last.rms)
                                /\ CalculateRMS(last.rms) > interruptThreshold
                  THEN 1 ELSE 0
           /\ last.signals = 1 => ~isAudioPlaying
           /\ InterruptsWritten = IF CanSend(World) THEN last.signals ELSE 0
    /\ last.op # "frame" => last.signals = 0
    /\ signalsSinceArm <= 1

\* a second qualifying frame after the trigger, which hands over nothing
C5_Witness ==
    /\ last.op = "frame"
    /\ CalculateRMS(last.rms) > interruptThreshold
    /\ ~last.armed
    /\ last.signals = 0
    /\ signalsSinceArm = 1

\* C6: the playback-active flag is raised by every accepted play(), and is
\* false after the completion callback that finds the queue empty, after
\* interruptPlayback(), and after stop().
C6_ArmingFlag ==
    /\ (last.op = "play" /\ outputAudioContext) => isAudioPlaying
    /\ (last.op = "onended" /\ last.drained) => ~isAudioPlaying
    /\ last.op = "interruptPlayback" => ~isAudioPlaying
    /\ (last.op = "stopConversation" /\ last.active) => ~isAudioPlaying

----------------------------------------------------------------------------
(* Claims about the session lifecycle (SessionSpec) *)

\* C7: when a startConversation() call returns successfully, having marked
\* the session active, WebSocketManager.isConnected() is true.
C7_StartedImpliesConnected ==
    last.result = "started" => IsConnected(World)

\* C8: when a startConversation() call has failed, the session is inactive,
\* no socket is referenced, connecting or open, and no capture stream or
\* audio context is held.
C8_FailedStartReleases ==
    last.result = "failed" =>
        /\ ~cmIsRunning
        /\ websocket = NoSocket
        /\ \A s \in Sockets : readyState[s] \notin {"connecting", "open"}
        /\ ~inputStream
        /\ ~inputAudioContext
        /\ ~outputAudioContext
        /\ ~leakedCapture

\* C9: when a startConversation() call has failed, the last snapshot handed
\* to the observer carries the error, with connected and recording false.
C9_FailedStartReported ==
    last.result = "failed" =>
        /\ published # NoSnapshot
        /\ published.error # NullError
        /\ ~published.isConnected
        /\ ~published.isRecording

TransportClosed ==
    /\ websocket = NoSocket
    /\ \A s \in Sockets : readyState[s] \notin {"connecting", "open"}

\* C10: stopConversation() on an active session leaves the session inactive,
\* capture halted, the playback queue empty with no source node referenced,
\* the transport closed and the baseline state published; until the next
\* call of startConversation() no capture frame is processed and the
\* published state stays at the baseline.
C10_StopResets ==
    /\ (last.op = "stopConversation" /\ last.active) =>
           /\ ~cmIsRunning
           /\ ~aiIsRunning
           /\ outputQueue = <<>>
           /\ ~isOutputPlaying
           /\ currentOutputSource = NoSource
           /\ TransportClosed
           /\ published = Baseline
    /\ stoppedSince =>
           /\ last.op # "frame"
           /\ published = Baseline

\* C11: stopConversation() on an inactive session changes no field of the
\* session, the transport, the capture side or the playback side and hands
\* no snapshot to the observer; so a second stop right after a stop changes
\* nothing.
C11_InactiveStopNoOp ==
    [][(last'.op = "stopConversation" /\ ~cmIsRunning) =>
           /\ UNCHANGED program
           /\ last'.pubs = 0
           /\ last'.wire = <<>>]_vars

\* a second stopConversation() right after the one that stopped the session
C11_Witness ==
    /\ last.op = "stopConversation"
    /\ ~last.active
    /\ stoppedSince

----------------------------------------------------------------------------
(* Claims about capture, the transmit window and the flush (CaptureSpec) *)

\* C12: after stopConversation() on an active session the capture buffer is
\* empty and the last-speech timestamp is null (so that nothing captured
\* before the stop can be transmitted after the next start, and "should
\* transmit" is false until a new speech frame arrives).
C12_StopResetsCapture ==
    (last.op = "stopConversation" /\ last.active) =>
        /\ audioBufferParts = <<>>
        /\ lastSpeechTime = NullTime
        /\ ~ShouldSendAudio(World)

\* a frame is silent when its RMS, after the noise floor has been applied,
\* does not exceed the silence threshold
Silent(raw) == (IF raw < noiseFloor THEN 0 ELSE raw) <= silenceThreshold

\* C13: a silent frame never assigns the last-speech timestamp and never
\* turns "should transmit" from false to true; as long as no frame was
\* speech, the capture buffer stays empty and nothing is flushed.
C13_SilenceKeepsWindowShut ==
    [][/\ (last'.op = "frame" /\ Silent(last'.rms)) =>
              /\ lastSpeechTime' = lastSpeechTime
              /\ ~ShouldSendAudio(World) => ~ShouldSendAudio(World)'
       /\ speechFrames' = 0 =>
              /\ flushCount' = 0
              /\ audioBufferParts' = <<>>
              /\ lastSpeechTime' = NullTime]_vars

\* a frame below the noise floor but above the silence threshold, after
\* time has passed in a session that heard no speech
C13_Witness ==
    /\ last.op = "frame"
    /\ last.rms = 15
    /\ now > 0
    /\ speechFrames = 0
    /\ ~last.buffered
    /\ flushCount = 0

\* a frame was speech, and less than the silence timeout has passed since
\* the latest such frame
WindowOpen == speechAt # NullTime /\ now - speechAt < silenceTimeout

\* C14: when a frame has been processed, shouldSendAudio() is true exactly
\* when some frame up to and including this one was speech and less than
\* 2000 ms have passed since the latest of them, and the frame was pushed on
\* the capture buffer exactly in that case.
C14_TrailingWindow ==
    last.op = "frame" =>
        /\ ShouldSendAudio(World) <=> WindowOpen
        /\ last.buffered <=> WindowOpen

\* a frame processed exactly 2000 ms after the latest speech frame
C14_Witness ==
    /\ last.op = "frame"
    /\ speechAt # NullTime
    /\ now - speechAt = silenceTimeout
    /\ ~last.buffered

AudioWritten == Len(SelectSeq(last.wire, LAMBDA m : m.kind = "audio"))

\* C15: the capture buffer is handed to inputCallback, and audio is written
\* to the socket, only by a frame and only while "should transmit" is true.
C15_NoFlushOutsideWindow ==
    (last.flushes > 0 \/ AudioWritten > 0) =>
        /\ last.op = "frame"
        /\ WindowOpen
        /\ ShouldSendAudio(World)

\* the window has closed over a filled buffer whose send interval has
\* elapsed, and the frame handed nothing over
C15_Witness ==
    /\ last.op = "frame"
    /\ ~WindowOpen
    /\ audioBufferParts # <<>>
    /\ now - lastSendTime >= sendInterval
    /\ last.flushes = 0
    /\ AudioWritten = 0

\* C16: two consecutive hand-offs of the capture buffer are at least the send
\* interval apart; a frame hands over at most once and never an empty
\* buffer; and the flush timer is assigned only by a hand-off (it holds the
\* construction time until the first one, the time of the latest one after).
C16_FlushCadence ==
    /\ last.flushes <= 1
    /\ (last.flushes > 0 /\ last.gap # NullTime) => last.gap >= sendInterval
    /\ last.flushes > 0 => last.flushed # <<>> /\ last.pending # <<>>
    /\ (last.op = "frame" /\ last.pending = <<>>) =>
           last.flushes = 0 /\ AudioWritten = 0
    /\ lastSendTime = IF flushedAt = NullTime THEN 0 ELSE flushedAt

\* a hand-off exactly one send interval after the previous one
C16_Witness ==
    /\ last.flushes = 1
    /\ last.gap = sendInterval

\* C17: a hand-off gives inputCallback, once, the chunks of the capture
\* buffer (the frame just pushed included) in the order they were pushed,
\* and leaves the buffer empty; sendAudioData writes exactly that to the
\* socket if it is open and nothing otherwise; a step without a hand-off
\* removes and reorders nothing.  So every chunk is handed over at most
\* once and in the order of accumulation.
C17_FlushContent ==
    [][LET all == audioBufferParts \o
                      (IF last'.buffered THEN <<last'.rms>> ELSE <<>>)
       IN  /\ last'.flushes > 0 =>
                  /\ last'.flushes = 1
                  /\ last'.flushed = all
                  /\ audioBufferParts' = <<>>
                  /\ last'.wire = IF CanSend(World)
                                  THEN <<[kind |-> "audio", data |-> all]>>
                                  ELSE <<>>
           /\ last'.flushes = 0 => audioBufferParts' = all]_vars

\* a speech frame and a later silent frame were handed over together, in
\* that order, and written to the socket
C17_Witness ==
    /\ last.flushes = 1
    /\ last.flushed = <<20, 0>>
    /\ audioBufferParts = <<>>
    /\ AudioWritten = 1

AllSilent(parts) == \A i \in 1..Len(parts) : Silent(parts[i])

----------------------------------------------------------------------------
(* Claims about the control surface (SessionSpec) *)

\* C19: sendMessage() writes the message to the socket, once, when the
\* session is active and WebSocketManager.isConnected() is true; otherwise it
\* writes nothing; in both cases it changes no field of the session, the
\* transport, capture or playback and hands no snapshot to the observer.
C19_SendMessageGuard ==
    [][last'.op = "sendMessage" =>
           /\ UNCHANGED program
           /\ last'.pubs = 0
           /\ last'.wire = IF cmIsRunning /\ IsConnected(World)
                           THEN <<[kind |-> "message", data |-> <<>>]>>
                           ELSE <<>>]_vars

\* sendMessage() on an active session whose socket has closed
C19_Witness ==
    /\ last.op = "sendMessage"
    /\ cmIsRunning
    /\ ~IsConnected(World)
    /\ last.wire = <<>>

\* C20: updateWebSocketUrl() on an active session throws and changes nothing,
\* the endpoint and the transport included; on an inactive session it makes
\* its argument the endpoint; and every WebSocket a later startConversation()
\* creates is created with the endpoint set last.
C20_UpdateEndpoint ==
    [][/\ last'.op = "updateWebSocketUrl" =>
              IF cmIsRunning
              THEN /\ last'.result = "threw"
                   /\ UNCHANGED program
              ELSE /\ last'.result # "threw"
                   /\ websocketUrl' = last'.url
                   /\ ~cmIsRunning'
       /\ \A s \in Sockets :
              (readyState[s] = "unused" /\ readyState'[s] # "unused") =>
                  /\ last'.op = "startConversation"
                  /\ socketUrl'[s] = websocketUrl]_vars

\* the endpoint was changed on an inactive session and the next
\* startConversation() has created its socket
C20_Witness ==
    /\ last.op = "startConversation"
    /\ websocketUrl # FirstUrl
    /\ websocket # NoSocket
    /\ readyState[websocket] = "connecting"
    /\ socketUrl[websocket] = websocketUrl
    /\ orphaned # {}

----------------------------------------------------------------------------
(* Claims about disconnects and overlapping calls (SessionSpec) *)

\* C21: when the socket of an active session has closed, without
\* stopConversation() having been called, the snapshot last handed to the
\* observer says connected = false.
C21_DisconnectPublished ==
    (/\ last.op = "onclose"
     /\ cmIsRunning
     /\ websocket # NoSocket
     /\ readyState[websocket] = "closed") =>
        /\ ~published.isConnected
        /\ ~state.isConnected

----------------------------------------------------------------------------
(* Claims about the PCM conversions (PcmSpec) *)

Abs(n) == IF n < 0 THEN -n ELSE n

\* C22: the Int16 value stored for a sample lies in [-32768, 32767]; the
\* sample converted to Int16 and back differs from the (clamped) sample by at
\* most 1/32768 and never has the opposite sign.
C22_PcmRoundTrip ==
    /\ pcmStage # "float" => pcm >= -32768 /\ pcm <= 32767
    /\ pcmStage = "back" =>
           LET x == Clamp(sample)
           IN  /\ Abs(x - restored) <= SampleScale \div 32768
               /\ ~(x > 0 /\ restored < 0)
               /\ ~(x < 0 /\ restored > 0)

\* C23: when the render of a dequeued chunk fails to start, the playback
\* queue is idle and holds no source node, the session is as active as it
\* was, the chunk is neither rendered nor queued again, and the queue is not
\* stuck: a play() that does not fail itself leaves a chunk rendering, and
\* chunks are started, and left queued, in the order of their arrival.
C23_RenderStartFailure ==
    /\ last.failed # NoSource =>
           /\ ~isOutputPlaying
           /\ currentOutputSource = NoSource
           /\ cmIsRunning = last.active
    /\ \A c \in Chunks : chunk[c] \in {"failed", "unplayable"} =>
           /\ c \notin Range(started)
           /\ c \notin Range(outputQueue)
    /\ (last.op = "play" /\ outputAudioContext /\ last.failed = NoSource) =>
           /\ isOutputPlaying
           /\ Rendering(World) # {}
    /\ \A i, j \in DOMAIN started : i < j => started[i] < started[j]
    /\ \A i, j \in DOMAIN outputQueue : i < j => outputQueue[i] < outputQueue[j]
    /\ \A i \in DOMAIN started, j \in DOMAIN outputQueue :
           started[i] < outputQueue[j]

\* C24: the close event of a socket that disconnect() had closed, delivered
\* while the socket of a later start is open and usable, leaves that socket
\* usable: isConnected() stays true and sendAudioData still writes to it.
C24_LateCloseHarmless ==
    [][\A s \in Sockets :
          (/\ last'.op = "onclose"
           /\ readyState[s] = "closing"
           /\ readyState'[s] = "closed"
           /\ IsConnected(World))
          => (/\ websocket' = websocket
              /\ readyState'[websocket] = "open"
              /\ wsIsRunning')]_vars

\* C25: overlapping calls of startConversation() connect the transport once
\* and acquire the capture device once: at most one call waits for a socket,
\* at most one call waits for getUserMedia, and no capture stream with its
\* audio contexts is overwritten while it is still held.
C25_OverlappingStartsAcquireOnce ==
    /\ \A c, d \in Callers :
           (calls[c].pc = "connecting" /\ calls[d].pc = "connecting") => c = d
    /\ \A c, d \in Callers :
           (calls[c].pc = "acquiring" /\ calls[d].pc = "acquiring") => c = d
    /\ ~leakedCapture

\* C26: when stopConversation() was called while a startConversation() call
\* was pending and that call settles next, the session is inactive, no socket
\* is connecting or open, and nothing is captured.
C26_StopWinsOverPendingStart ==
    [][(/\ last.op = "stopConversation"
        /\ last'.result \in {"started", "failed"})
       => (/\ ~cmIsRunning'
           /\ \A s \in Sockets : readyState'[s] \notin {"connecting", "open"}
           /\ ~inputStream'
           /\ ~aiIsRunning')]_vars

\* C27: chunks still in the capture buffer when "should transmit" is false
\* have outlived their transmit window and are never handed over: the step
\* that follows such a state flushes nothing.
C27_BufferExpiresWithWindow ==
    [][(/\ ~ShouldSendAudio(World)
        /\ audioBufferParts # <<>>)
       => last'.flushes = 0]_vars

\* C28: the isPlaying field of the ConversationState is false in the state
\* getState() returns and in every snapshot handed to the observer, whatever
\* the session, the playback queue and the capture side have done.
C28_IsPlayingNeverTrue ==
    /\ ~state.isPlaying
    /\ ~published.isPlaying

\* a snapshot was handed to the observer by a capture frame while a chunk was
\* rendering and the playback-active flag was raised
C28_Witness ==
    /\ last.op = "frame"
    /\ last.pubs > 0
    /\ published # NoSnapshot
    /\ Rendering(World) # {}
    /\ isOutputPlaying
    /\ isAudioPlaying
    /\ ~published.isPlaying

====
